---- MODULE Spec2Model ----
(***************************************************************************)
(* Model of the face-embedding store of src/code/api.py                    *)
(* (class FaceRecognitionSystem and the /add endpoint).                    *)
(*                                                                         *)
(* Embeddings are points on a line, in hundredths: the L2 distance of two  *)
(* embeddings is the absolute difference of their positions, so 50 stands  *)
(* for the distance 0.5 and 70 for 0.7.  The two persisted artifacts       *)
(* (face_embeddings.npy, labels.pkl) are whole-file values: a write either *)
(* replaces the file or fails and leaves it as it was.                     *)
(***************************************************************************)
EXTENDS Integers, Sequences, FiniteSets, TLC

VARIABLES
    face_embeddings,  \* self.face_embeddings: the rows of the matrix, in order
    face_labels,      \* self.face_labels
    embFile,          \* face_embeddings.npy: [exists, rows]
    labFile,          \* labels.pkl: [exists, labels]
    up,               \* the process is running (FaceRecognitionSystem constructed)
    slot,             \* the add_face calls in progress, one per request slot
    rec,              \* the last recognize_faces call: its input and its return value
    crashed           \* history: the enrollment that was running when the process died

vars == <<face_embeddings, face_labels, embFile, labFile, up, slot, rec, crashed>>

----------------------------------------------------------------------------
(* Bounds of the model *)

\* an enrollment starts only on a store of fewer complete records than this
MaxStore == 3
\* the most entries of an artifact that is on disk before the first start
MaxFile == 2
\* the most faces the embedder reports in an enrollment image of several faces
MaxAddFaces == 2
\* the most faces the embedder reports in a recognition image
MaxFaces == 3
\* the most faces the embedder reports in a recognition image of a crowd
MaxCapFaces == 9

(* Program constants *)

\* MAX_FACES_FOR_CHECK
MAX_FACES_FOR_CHECK == 8
\* the dedup threshold 0.5 of add_face, in hundredths
DedupThreshold == 50
\* the recognition threshold 0.7 of recognize_faces, in hundredths
RecogThreshold == 70

----------------------------------------------------------------------------
(* Input domains *)

\* positions of the embeddings of enrollment images: the distances 10, 40, 50, 60
Embs == {0, 10, 50, 60}
\* positions of the embeddings of recognition images: 69 and 70 away from 0
RecEmbs == {0, 69, 70}
\* labels a caller supplies that pass validation; one has a leading blank, which
\* strip() would remove
Labels == {"ann", " bob"}
\* every comment a caller can supply: valid ones, the empty one, a blank one
Comments == Labels \cup {"", " "}
\* the bounding box <<x1, y1, x2, y2>> of the faces of the requests: neither
\* handler's outcome depends on the box of a face that is alone or on the boxes of
\* recognition images (detect_all_faces never reads bbox)
Box == <<0, 0, 10, 10>>
\* a box of area 400 (Box has area 100)
BigBox == <<0, 0, 20, 20>>

SeqsUpTo(S, n) == UNION {[1..k -> S] : k \in 0..n}

\* an image as the codec and the embedder see it: whether base64 decoding
\* succeeds, whether face_app.get raises, and the faces it reports, in order
ImagesOf(FS, n) ==
    {[decodable |-> FALSE, detectOk |-> TRUE, faces |-> <<>>],
     [decodable |-> TRUE, detectOk |-> FALSE, faces |-> <<>>]}
    \cup {[decodable |-> TRUE, detectOk |-> TRUE, faces |-> f] : f \in SeqsUpTo(FS, n)}

\* enrollment images of at most one face: of an image add_face uses only what
\* detect_main_face returns (line 137)
AddImages == ImagesOf([emb : Embs, bbox : {Box}], 1)
\* images of faces at equal distances from stored rows 0 and 60 (position 30),
\* nearer to one of them (20, 69), and 0.5 away from the row 60 (110)
TieAddImages == ImagesOf([emb : {20, 30, 110}, bbox : {Box}], 1)
\* recognition images of up to MaxCapFaces faces, each on a stored row at 0 or
\* 0.7 away from it
CapImages == ImagesOf([emb : {0, 70}, bbox : {Box}], MaxCapFaces)
TieRecImages == ImagesOf([emb : {30, 69}, bbox : {Box}], MaxFaces)
\* enrollment images of several faces, of box areas 100 and 400, in every order
GroupImages == ImagesOf([emb : {0, 60}, bbox : {Box, BigBox}], MaxAddFaces)
RecImages == ImagesOf([emb : RecEmbs, bbox : {Box}], MaxFaces)

----------------------------------------------------------------------------
(* Pure helpers *)

Abs(x) == IF x < 0 THEN -x ELSE x
Min(a, b) == IF a < b THEN a ELSE b
Max(a, b) == IF a > b THEN a ELSE b

\* LA.norm(row - embedding): the L2 distance, in hundredths
Dist(a, b) == Abs(a - b)

\* dists = LA.norm(self.face_embeddings - embedding, axis=1)
Dists(E, e) == [k \in 1..Len(E) |-> Dist(E[k], e)]

\* np.min(dists), for a non-empty dists
MinOf(d) == CHOOSE m \in {d[k] : k \in 1..Len(d)} : \A k \in 1..Len(d) : m <= d[k]

\* (mutant) the last index holding the minimum
ArgMinLast(d) == CHOOSE k \in 1..Len(d) :
                     /\ d[k] = MinOf(d)
                     /\ \A j \in (k + 1)..Len(d) : d[j] # d[k]

\* np.argmin(dists): the first index holding the minimum (1-based here)
ArgMin(d) == CHOOSE k \in 1..Len(d) :
                 /\ d[k] = MinOf(d)
                 /\ \A j \in 1..(k - 1) : d[j] # d[k]

\* seq[:n]
Prefix(s, n) == SubSeq(s, 1, Min(n, Len(s)))

\* comment.strip(): the blank comment strips to the empty one, a padded label to
\* its text
Strip(c) == IF c = " " THEN "" ELSE IF c = " bob" THEN "bob" ELSE c

\* (x.bbox[2]-x.bbox[0])*(x.bbox[3]-x.bbox[1])
Area(f) == (f.bbox[3] - f.bbox[1]) * (f.bbox[4] - f.bbox[2])

----------------------------------------------------------------------------
(* detection *)

\* (mutant) the last face the embedder reports, whatever its box
MainFaceLast(fs) == Len(fs)

\* detect_main_face: the face of largest box area; sorted() is stable, so among
\* faces of equal area the first in detection order is taken
MainFaceIndex(fs) ==
    CHOOSE k \in 1..Len(fs) :
        /\ \A j \in 1..Len(fs) : Area(fs[j]) <= Area(fs[k])
        /\ \A j \in 1..(k - 1) : Area(fs[j]) < Area(fs[k])

detect_main_face(img) ==
    IF ~img.detectOk THEN [emb |-> 0, error |-> "DetectError"]
    ELSE IF Len(img.faces) = 0 THEN [emb |-> 0, error |-> "NoFaces"]
    ELSE [emb |-> img.faces[MainFaceIndex(img.faces)].emb, error |-> "None"]

\* (mutant) without the cut of lines 120-121
detect_all_faces_uncapped(img) ==
    IF ~img.detectOk THEN [embeddings |-> <<>>, error |-> "DetectError"]
    ELSE IF Len(img.faces) = 0 THEN [embeddings |-> <<>>, error |-> "NoFaces"]
    ELSE [embeddings |-> [k \in 1..Len(img.faces) |-> img.faces[k].emb],
          error |-> "None"]

\* detect_all_faces: the embeddings of the first MAX_FACES_FOR_CHECK faces
detect_all_faces(img) ==
    IF ~img.detectOk THEN [embeddings |-> <<>>, error |-> "DetectError"]
    ELSE IF Len(img.faces) = 0 THEN [embeddings |-> <<>>, error |-> "NoFaces"]
    ELSE [embeddings |->
              [k \in 1..Min(Len(img.faces), MAX_FACES_FOR_CHECK) |-> img.faces[k].emb],
          error |-> "None"]

----------------------------------------------------------------------------
(* State *)

NoResult == [kind |-> "None", name |-> ""]
Store(E, L) == [emb |-> E, lab |-> L]
EmptyStore == Store(<<>>, <<>>)

\* an add_face call: its position, its locals (embedding, comment), whether it is
\* inside the repair's save or the append's save, and its return value.
\* History: detected (it got past detection), faces (the faces the embedder
\* reported to it, once it got past detection), pre and preDisk (the store and the
\* persisted pair when it started), repaired (it truncated), repairSaved (the
\* persisted pair its repair wrote), second (it started while the other slot's
\* call was in flight), ioFailed (a write of save_database failed in it)
IdleSlot == [pc |-> "idle", emb |-> 0, label |-> "", phase |-> "none",
             result |-> NoResult, detected |-> FALSE, pre |-> EmptyStore,
             preDisk |-> EmptyStore, repaired |-> FALSE, repairSaved |-> EmptyStore,
             second |-> FALSE, ioFailed |-> FALSE, faces |-> <<>>]

NoRec == [called |-> FALSE, img |-> [decodable |-> FALSE, detectOk |-> TRUE, faces |-> <<>>],
          results |-> <<>>, error |-> "None", pre |-> EmptyStore]

NoCrash == [active |-> FALSE, pc |-> "idle", phase |-> "none", emb |-> 0, label |-> "",
            pre |-> EmptyStore, preDisk |-> EmptyStore]

Slots == {1, 2}

AbsentFile == [exists |-> FALSE, data |-> <<>>]
File(d) == [exists |-> TRUE, data |-> d]

\* what load_database would read from the two artifacts
Persisted == IF embFile.exists /\ labFile.exists
             THEN Store(embFile.data, labFile.data)
             ELSE EmptyStore

\* a handler that has started and not yet returned
Running(i) == slot[i].pc \notin {"idle", "done"}

\* (mutant) the endpoint as a plain `def`, which FastAPI runs in a thread pool:
\* the steps of two calls interleave freely
ThreadPoolFree(i) == i \in Slots

\* add_face_endpoint is an `async def` that calls add_face with no await in it:
\* the event loop runs one handler to its return before it starts another
EventLoopFree(i) == \A j \in Slots \ {i} : ~Running(j)

\* a request is handled in the first slot that is free
FirstFree(i) == \A j \in Slots : j < i => slot[j].pc # "idle"

\* before the first process start: no artifacts
Init ==
    /\ face_embeddings = <<>>
    /\ face_labels = <<>>
    /\ embFile = AbsentFile
    /\ labFile = AbsentFile
    /\ up = FALSE
    /\ slot = [i \in Slots |-> IdleSlot]
    /\ rec = NoRec
    /\ crashed = NoCrash

\* before a process start over artifacts left by anything that can write them:
\* each artifact absent or holding any readable value
EmbFiles == {AbsentFile} \cup {File(d) : d \in SeqsUpTo(Embs, MaxFile)}
LabFiles == {AbsentFile} \cup {File(d) : d \in SeqsUpTo(Labels, MaxFile)}

\* before a process start over the artifacts of two accepted enrollments, of
\* faces 0.6 apart under different labels
InitTie ==
    /\ face_embeddings = <<>>
    /\ face_labels = <<>>
    /\ embFile \in {File(<<0, 60>>), File(<<60, 0>>)}
    /\ labFile \in {File(<<"ann", " bob">>), File(<<" bob", "ann">>)}
    /\ up = FALSE
    /\ slot = [i \in Slots |-> IdleSlot]
    /\ rec = NoRec
    /\ crashed = NoCrash

\* before a process start over the artifacts of one accepted enrollment
InitCap ==
    /\ face_embeddings = <<>>
    /\ face_labels = <<>>
    /\ embFile = File(<<0>>)
    /\ labFile \in {File(<<l>>) : l \in Labels}
    /\ up = FALSE
    /\ slot = [i \in Slots |-> IdleSlot]
    /\ rec = NoRec
    /\ crashed = NoCrash

InitAny ==
    /\ face_embeddings = <<>>
    /\ face_labels = <<>>
    /\ embFile \in EmbFiles
    /\ labFile \in LabFiles
    /\ up = FALSE
    /\ slot = [i \in Slots |-> IdleSlot]
    /\ rec = NoRec
    /\ crashed = NoCrash

----------------------------------------------------------------------------
(* Process start and death *)

\* FaceRecognitionSystem.__init__ -> load_database
load_database ==
    /\ ~up
    /\ up' = TRUE
    /\ face_embeddings' = Persisted.emb
    /\ face_labels' = Persisted.lab
    /\ rec' = NoRec
    /\ UNCHANGED <<embFile, labFile, slot, crashed>>

\* the process dies: the in-memory store and every call in progress are gone,
\* the artifacts stay as the last completed write left them
Crash ==
    /\ up /\ ~rec.called
    /\ up' = FALSE
    /\ face_embeddings' = <<>>
    /\ face_labels' = <<>>
    /\ slot' = [i \in Slots |-> IdleSlot]
    /\ rec' = NoRec
    /\ crashed' = IF \E i \in Slots : Running(i)
                  THEN LET i == CHOOSE j \in Slots : Running(j)
                       IN [active |-> TRUE, pc |-> slot[i].pc, phase |-> slot[i].phase,
                           emb |-> slot[i].emb,
                           label |-> slot[i].label, pre |-> slot[i].pre,
                           preDisk |-> slot[i].preDisk]
                  ELSE NoCrash
    /\ UNCHANGED <<embFile, labFile>>

\* the restarted service takes requests again: the history of the crash is dropped
Resume ==
    /\ up /\ crashed.active
    /\ crashed' = NoCrash
    /\ UNCHANGED <<face_embeddings, face_labels, embFile, labFile, up, slot, rec>>

----------------------------------------------------------------------------
(* add_face, step by step *)

Return(i, kind, name) ==
    slot' = [slot EXCEPT ![i].pc = "done", ![i].result = [kind |-> kind, name |-> name]]

Goto(i, pc) == slot' = [slot EXCEPT ![i].pc = pc]

\* (mutant) the consistency repair done on entry, before the validation
AddBeginRepairing(i, img, comment) ==
    /\ up /\ slot[i].pc = "idle" /\ EventLoopFree(i)
    /\ FirstFree(i) /\ ~rec.called /\ ~crashed.active
    /\ Min(Len(face_embeddings), Len(face_labels)) < MaxStore
    /\ LET d == detect_main_face(img)
           min_length == Min(Len(face_labels), Len(face_embeddings))
           s == [IdleSlot EXCEPT !.pre = Store(face_embeddings, face_labels),
                                 !.preDisk = Persisted]
           ret(kind) == slot' = [slot EXCEPT ![i] =
                            [s EXCEPT !.pc = "done", !.result = [kind |-> kind, name |-> ""]]]
       IN /\ face_labels' = Prefix(face_labels, min_length)
          /\ face_embeddings' = Prefix(face_embeddings, min_length)
          /\ IF comment = "" \/ Strip(comment) = "" THEN ret("EmptyComment")
             ELSE IF ~img.decodable THEN ret("DecodeError")
             ELSE IF d.error # "None" THEN ret(d.error)
             ELSE slot' = [slot EXCEPT ![i] =
                              [s EXCEPT !.pc = "check", !.emb = d.emb, !.label = comment,
                                        !.detected = TRUE, !.faces = img.faces]]
    /\ UNCHANGED <<embFile, labFile, up, rec, crashed>>

\* lines 130-139: validation, decoding, detection of the dominant face
AddBegin(i, img, comment) ==
    /\ up /\ slot[i].pc = "idle" /\ EventLoopFree(i)
    /\ FirstFree(i) /\ ~rec.called /\ ~crashed.active
    /\ Min(Len(face_embeddings), Len(face_labels)) < MaxStore
    /\ LET d == detect_main_face(img)
           s == [IdleSlot EXCEPT !.pre = Store(face_embeddings, face_labels),
                                 !.preDisk = Persisted,
                                 !.second = \E j \in Slots \ {i} : slot[j].pc # "idle"]
           others == [j \in Slots |-> [slot[j] EXCEPT !.second = FALSE]]
           ret(kind) == slot' = [others EXCEPT ![i] =
                            [s EXCEPT !.pc = "done", !.result = [kind |-> kind, name |-> ""]]]
       IN IF comment = "" \/ Strip(comment) = "" THEN ret("EmptyComment")
          ELSE IF ~img.decodable THEN ret("DecodeError")
          ELSE IF d.error # "None" THEN ret(d.error)
          ELSE slot' = [others EXCEPT ![i] =
                            [s EXCEPT !.pc = "check", !.emb = d.emb, !.label = comment,
                                      !.detected = TRUE, !.faces = img.faces]]
    /\ UNCHANGED <<face_embeddings, face_labels, embFile, labFile, up, rec, crashed>>

\* lines 141-148: the consistency check and the truncation
AddRepair(i) ==
    /\ up /\ slot[i].pc = "check" /\ EventLoopFree(i)
    /\ IF Len(face_labels) > 0
       THEN IF Len(face_labels) # Len(face_embeddings)
            THEN LET min_length == Min(Len(face_labels), Len(face_embeddings))
                 IN /\ face_labels' = Prefix(face_labels, min_length)
                    /\ face_embeddings' = Prefix(face_embeddings, min_length)
                    /\ slot' = [slot EXCEPT ![i].pc = "save_emb", ![i].phase = "repair",
                                            ![i].repaired = TRUE]
            ELSE /\ Goto(i, "dedup")
                 /\ UNCHANGED <<face_embeddings, face_labels>>
       ELSE /\ Goto(i, "vstack")
            /\ UNCHANGED <<face_embeddings, face_labels>>
    /\ UNCHANGED <<embFile, labFile, up, rec, crashed>>

\* (mutant) the threshold compared with <=
IsDuplicateLe(min_dist) == min_dist <= DedupThreshold

\* (mutant) the comparison the wrong way round
IsDuplicateGt(min_dist) == min_dist > DedupThreshold

\* line 154: if min_dist < 0.5
IsDuplicate(min_dist) == min_dist < DedupThreshold

\* lines 152-164: the nearest stored embedding and the duplicate decision;
\* np.min of an empty dists raises ValueError, which nothing catches
AddDedup(i) ==
    /\ up /\ slot[i].pc = "dedup" /\ EventLoopFree(i)
    /\ LET dists == Dists(face_embeddings, slot[i].emb)
       IN IF Len(dists) = 0 THEN Return(i, "Raised", "")
          ELSE IF IsDuplicate(MinOf(dists))
               THEN IF ArgMin(dists) <= Len(face_labels)
                    THEN Return(i, "Duplicate", face_labels[ArgMin(dists)])
                    ELSE Return(i, "IndexMismatch", "")
               ELSE Goto(i, "vstack")
    /\ UNCHANGED <<face_embeddings, face_labels, embFile, labFile, up, rec, crashed>>

\* (mutant) the new row stacked on top of the matrix
AddVstackFront(i) ==
    /\ up /\ slot[i].pc = "vstack" /\ EventLoopFree(i)
    /\ face_embeddings' = <<slot[i].emb>> \o face_embeddings
    /\ Goto(i, "append")
    /\ UNCHANGED <<face_labels, embFile, labFile, up, rec, crashed>>

\* line 167: np.vstack
AddVstack(i) ==
    /\ up /\ slot[i].pc = "vstack" /\ EventLoopFree(i)
    /\ face_embeddings' = Append(face_embeddings, slot[i].emb)
    /\ Goto(i, "append")
    /\ UNCHANGED <<face_labels, embFile, labFile, up, rec, crashed>>

\* (mutant) the label stored stripped
AddLabelStripped(i) ==
    /\ up /\ slot[i].pc = "append" /\ EventLoopFree(i)
    /\ face_labels' = Append(face_labels, Strip(slot[i].label))
    /\ slot' = [slot EXCEPT ![i].pc = "save_emb", ![i].phase = "append"]
    /\ UNCHANGED <<face_embeddings, embFile, labFile, up, rec, crashed>>

\* line 168: self.face_labels.append(comment), then into save_database
AddLabel(i) ==
    /\ up /\ slot[i].pc = "append" /\ EventLoopFree(i)
    /\ face_labels' = Append(face_labels, slot[i].label)
    /\ slot' = [slot EXCEPT ![i].pc = "save_emb", ![i].phase = "append"]
    /\ UNCHANGED <<face_embeddings, embFile, labFile, up, rec, crashed>>

\* (mutant) the append's save outside any try: its exception leaves add_face
SaveFailedUncaught(i) ==
    slot' = [slot EXCEPT ![i].pc = "done", ![i].ioFailed = TRUE,
                         ![i].result = [kind |-> "Raised", name |-> ""]]

\* save_database fails: inside the try of lines 166-173 the exception becomes
\* the failure message; the repair's save (line 149) is outside any try
SaveFailed(i) ==
    slot' = [slot EXCEPT ![i].pc = "done", ![i].ioFailed = TRUE,
                         ![i].result = [kind |-> IF slot[i].phase = "append"
                                                 THEN "AddFailed" ELSE "Raised",
                                        name |-> ""]]

\* line 78: np.save(DB_EMBEDDINGS_FILE, self.face_embeddings)
SaveEmb(i, ok) ==
    /\ up /\ slot[i].pc = "save_emb" /\ EventLoopFree(i)
    /\ IF ok THEN /\ embFile' = File(face_embeddings)
                  /\ Goto(i, "save_lab")
             ELSE /\ SaveFailed(i)
                  /\ UNCHANGED embFile
    /\ UNCHANGED <<face_embeddings, face_labels, labFile, up, rec, crashed>>

\* lines 79-80: pickle.dump(self.face_labels, f), then back in add_face
SaveLab(i, ok) ==
    /\ up /\ slot[i].pc = "save_lab" /\ EventLoopFree(i)
    /\ IF ok THEN /\ labFile' = File(face_labels)
                  /\ IF slot[i].phase = "append"
                     THEN Return(i, "Ok", slot[i].label)
                     ELSE slot' = [slot EXCEPT ![i].pc = "dedup",
                                               ![i].repairSaved = Store(embFile.data, face_labels)]
             ELSE /\ SaveFailed(i)
                  /\ UNCHANGED labFile
    /\ UNCHANGED <<face_embeddings, face_labels, embFile, up, rec, crashed>>

\* the event loop has sent the response: the slot takes the next request
Reply(i) ==
    /\ up /\ slot[i].pc = "done" /\ EventLoopFree(i)
    /\ slot' = [slot EXCEPT ![i] = IdleSlot]
    /\ UNCHANGED <<face_embeddings, face_labels, embFile, labFile, up, rec, crashed>>

----------------------------------------------------------------------------
(* recognize_faces *)

\* lines 187-198: one evaluated face; np.argmin of an empty dists raises
\* ValueError and a label index past the labels raises IndexError
\* line 194: max(0, 100 - min_dist * 100), min_dist being in hundredths here
Confidence(min_dist) == Max(0, 100 - min_dist)

\* (mutant) the threshold compared with <=
IsMatchLe(min_dist) == min_dist <= RecogThreshold

\* line 193: if min_dist < 0.7
IsMatch(min_dist) == min_dist < RecogThreshold

FaceMatch(E, L, e) ==
    LET dists == Dists(E, e)
    IN IF Len(dists) = 0 THEN [kind |-> "raise", name |-> "", confidence |-> 0]
       ELSE LET min_index == ArgMin(dists)
                min_dist == dists[min_index]
            IN IF IsMatch(min_dist)
               THEN IF min_index <= Len(L)
                    THEN [kind |-> "match", name |-> L[min_index],
                          confidence |-> Confidence(min_dist)]
                    ELSE [kind |-> "raise", name |-> "", confidence |-> 0]
               ELSE [kind |-> "skip", name |-> "", confidence |-> 0]

\* (mutant) each match inserted at the front of results
RECURSIVE ScanReversed(_, _, _)
ScanReversed(E, L, es) ==
    IF es = <<>> THEN [results |-> <<>>, raised |-> FALSE]
    ELSE LET m == FaceMatch(E, L, Head(es))
         IN IF m.kind = "raise" THEN [results |-> <<>>, raised |-> TRUE]
            ELSE LET r == ScanReversed(E, L, Tail(es))
                 IN IF r.raised THEN r
                    ELSE [results |-> r.results \o
                                      (IF m.kind = "match"
                                       THEN <<[name |-> m.name, confidence |-> m.confidence]>>
                                       ELSE <<>>),
                          raised |-> FALSE]

\* the loop of lines 188-198 over the evaluated faces, in order: the matches so
\* far, and whether an exception ended the call
RECURSIVE Scan(_, _, _)
Scan(E, L, es) ==
    IF es = <<>> THEN [results |-> <<>>, raised |-> FALSE]
    ELSE LET m == FaceMatch(E, L, Head(es))
         IN IF m.kind = "raise" THEN [results |-> <<>>, raised |-> TRUE]
            ELSE LET r == Scan(E, L, Tail(es))
                 IN IF r.raised THEN r
                    ELSE [results |-> (IF m.kind = "match"
                                       THEN <<[name |-> m.name, confidence |-> m.confidence]>>
                                       ELSE <<>>) \o r.results,
                          raised |-> FALSE]

\* (mutant) without the empty-database return of lines 184-185
recognize_faces_unguarded(E, L, img) ==
    LET d == detect_all_faces(img)
    IN IF ~img.decodable THEN [results |-> <<>>, error |-> "DecodeError"]
       ELSE IF d.error # "None" THEN [results |-> <<>>, error |-> d.error]
       ELSE LET r == Scan(E, L, d.embeddings)
            IN IF r.raised THEN [results |-> <<>>, error |-> "Raised"]
               ELSE [results |-> r.results, error |-> "None"]

\* lines 175-200
recognize_faces(E, L, img) ==
    LET d == detect_all_faces(img)
    IN IF ~img.decodable THEN [results |-> <<>>, error |-> "DecodeError"]
       ELSE IF d.error # "None" THEN [results |-> <<>>, error |-> d.error]
       ELSE IF Len(L) = 0 THEN [results |-> <<>>, error |-> "EmptyDatabase"]
       ELSE LET r == Scan(E, L, d.embeddings)
            IN IF r.raised THEN [results |-> <<>>, error |-> "Raised"]
               ELSE [results |-> r.results, error |-> "None"]

\* (mutant) a recognition that ends with save_database
RecognizeAndSave(img) ==
    /\ up /\ ~rec.called /\ ~crashed.active /\ \A i \in Slots : slot[i].pc = "idle"
    /\ LET r == recognize_faces(face_embeddings, face_labels, img)
       IN rec' = [called |-> TRUE, img |-> img, results |-> r.results, error |-> r.error,
                  pre |-> Store(face_embeddings, face_labels)]
    /\ embFile' = File(face_embeddings)
    /\ labFile' = File(face_labels)
    /\ UNCHANGED <<face_embeddings, face_labels, up, slot, crashed>>

\* a recognize_faces call, from the request to the return value
Recognize(img) ==
    /\ up /\ ~rec.called /\ ~crashed.active /\ \A i \in Slots : slot[i].pc = "idle"
    /\ LET r == recognize_faces(face_embeddings, face_labels, img)
       IN rec' = [called |-> TRUE, img |-> img, results |-> r.results, error |-> r.error,
                  pre |-> Store(face_embeddings, face_labels)]
    /\ UNCHANGED <<face_embeddings, face_labels, embFile, labFile, up, slot, crashed>>

\* the caller has the return value of recognize_faces
RecReply ==
    /\ up /\ rec.called
    /\ rec' = NoRec
    /\ UNCHANGED <<face_embeddings, face_labels, embFile, labFile, up, slot, crashed>>

----------------------------------------------------------------------------
\* the steps of the add_face call in slot i, its image being one of Imgs
AddStepOn(i, Imgs) ==
    \/ \E img \in Imgs, c \in Comments : AddBegin(i, img, c)
    \/ AddRepair(i)
    \/ AddDedup(i)
    \/ AddVstack(i)
    \/ AddLabel(i)
    \/ \E ok \in BOOLEAN : SaveEmb(i, ok)
    \/ \E ok \in BOOLEAN : SaveLab(i, ok)
    \/ Reply(i)

\* the steps of the add_face call in slot i
AddStep(i) == AddStepOn(i, AddImages)

\* one request at a time: starts, crashes, enrollments and recognitions
Next ==
    \/ load_database
    \/ Crash
    \/ Resume
    \/ AddStep(1)
    \/ \E img \in RecImages : Recognize(img)
    \/ RecReply

\* one enrollment at a time, without crashes
NextAny ==
    \/ load_database
    \/ AddStep(1)

\* two enrollment requests in flight at once, without crashes
NextConc ==
    \/ load_database
    \/ \E i \in Slots : AddStep(i)

\* one enrollment at a time, from images of several faces, without crashes
NextGroup ==
    \/ load_database
    \/ AddStepOn(1, GroupImages)

\* enrollments and recognitions, one at a time, of faces at equal distances
\* from two stored records
NextTie ==
    \/ load_database
    \/ AddStepOn(1, TieAddImages)
    \/ \E img \in TieRecImages : Recognize(img)
    \/ RecReply

\* recognitions of crowds, one at a time
NextCap ==
    \/ load_database
    \/ \E img \in CapImages : Recognize(img)
    \/ RecReply

\* the service from its first start on an empty disk
Spec == Init /\ [][Next]_vars

\* enrollments, one at a time, in a service started over any readable pair of
\* artifacts
SpecAny == InitAny /\ [][NextAny]_vars

\* the service from its first start on an empty disk, two requests at a time
SpecConc == Init /\ [][NextConc]_vars

\* the service from its first start on an empty disk, enrolling from images of
\* several faces
SpecGroup == Init /\ [][NextGroup]_vars

\* the service started over two stored records, queried with faces at equal
\* distances from both
SpecTie == InitTie /\ [][NextTie]_vars

\* the service started over one stored record, recognizing images of up to
\* MaxCapFaces faces
SpecCap == InitCap /\ [][NextCap]_vars

----------------------------------------------------------------------------
(* Vocabulary of the properties *)

\* no add_face call is between its start and its return
Quiet == \A i \in Slots : ~Running(i)

\* e is at least the dedup threshold away from every row of E
FarFromAll(E, e) == \A k \in 1..Len(E) : Dist(E[k], e) >= DedupThreshold

\* the store S with the record (e, l) appended
WithRecord(S, e, l) == Store(Append(S.emb, e), Append(S.lab, l))

Consistent(S) == Len(S.emb) = Len(S.lab)

Current == Store(face_embeddings, face_labels)

----------------------------------------------------------------------------
(* C1 *)

\* C1: after every completed operation (load_database, add_face with any
\* outcome, recognize_faces) the in-memory store has as many embeddings as
\* labels.
C1_LengthsEqualAfterOperation ==
    (up /\ Quiet) => Len(face_embeddings) = Len(face_labels)

----------------------------------------------------------------------------
(* C2 *)

\* two add_face calls in flight together, both past detection, their embeddings
\* 0.1 apart and neither within 0.5 of a record of the store the first of them
\* (f) started on; no third call came between them: the second (g) started on
\* that store, possibly with the row or the record of the first already added
RacingPair ==
    /\ \A i \in Slots : slot[i].pc # "idle" /\ slot[i].detected
    /\ Dist(slot[1].emb, slot[2].emb) = 10
    /\ \E f \in Slots :
          /\ ~slot[f].second
          /\ Consistent(slot[f].pre)
          /\ \A i \in Slots : FarFromAll(slot[f].pre.emb, slot[i].emb)
          /\ \A g \in Slots \ {f} :
                slot[g].pre \in {slot[f].pre,
                                 Store(Append(slot[f].pre.emb, slot[f].emb), slot[f].pre.lab),
                                 WithRecord(slot[f].pre, slot[f].emb, slot[f].label)}

RaceBase == slot[CHOOSE f \in Slots : ~slot[f].second].pre

\* C2: two concurrent enrollments of near-identical faces never add two records,
\* and once both have returned exactly one of the two records is in the store
\* and a call was rejected as already enrolled.
C2_ConcurrentEnrollOneRecord ==
    RacingPair =>
        /\ Len(face_embeddings) <= Len(RaceBase.emb) + 1
        /\ Len(face_labels) <= Len(RaceBase.lab) + 1
        /\ (\A i \in Slots : slot[i].pc = "done") =>
              /\ \E i \in Slots :
                    /\ Current = WithRecord(RaceBase, slot[i].emb, slot[i].label)
                    /\ slot[i].result.kind \in {"Ok", "AddFailed"}
                    /\ \A j \in Slots \ {i} :
                          /\ slot[j].result.kind = "Duplicate"
                          /\ slot[j].result.name = slot[i].label

C2_Witness ==
    /\ RacingPair
    /\ slot[1].pc = "done" /\ slot[1].result.kind = "Ok"
    /\ slot[2].pc = "done" /\ slot[2].result.kind = "Duplicate"
    /\ slot[2].second

----------------------------------------------------------------------------
(* C3 *)

\* the process died inside an enrollment's append (after the in-memory append,
\* before or inside save_database), on a store that matched the persisted pair
\* when the enrollment started, and has been started again
RestartedAfterCrashInAppend ==
    /\ up /\ crashed.active
    /\ crashed.phase = "append" /\ crashed.pc \in {"save_emb", "save_lab"}
    /\ Consistent(crashed.pre) /\ crashed.pre = crashed.preDisk

\* C3: after a crash at any step of an enrollment the pair load_database reads
\* back is the store as it was before that enrollment or that store with the one
\* new record appended, and the two artifacts hold equally many entries.
C3_CrashAtomicity ==
    RestartedAfterCrashInAppend =>
        /\ Current \in {crashed.pre, WithRecord(crashed.pre, crashed.emb, crashed.label)}
        /\ (embFile.exists /\ labFile.exists) => Len(embFile.data) = Len(labFile.data)

----------------------------------------------------------------------------
(* C4 *)

\* an add_face call in slot 1 that got past validation, decoding and detection
\* has returned; it started on a store whose two sequences were equally long
ReturnedFromConsistent ==
    /\ up /\ slot[1].pc = "done" /\ slot[1].detected
    /\ Consistent(slot[1].pre)

\* the smallest distance from e to a row of E is below the dedup threshold
NearSome(E, e) == \E k \in 1..Len(E) : Dist(E[k], e) < DedupThreshold

\* the label of the first row of E nearest to e
NearestLabel(S, e) ==
    LET k == CHOOSE n \in 1..Len(S.emb) :
                 /\ \A j \in 1..Len(S.emb) : Dist(S.emb[n], e) <= Dist(S.emb[j], e)
                 /\ \A j \in 1..(n - 1) : Dist(S.emb[j], e) > Dist(S.emb[n], e)
    IN S.lab[k]

\* C4: add_face rejects, naming the existing label, exactly when the minimum
\* distance from the dominant face to the stored embeddings is strictly below
\* 0.5; a rejection appends nothing; at distance 0.5 or more, or on an empty
\* store, the record is appended.
C4_DedupDecision ==
    ReturnedFromConsistent =>
        LET c == slot[1] IN
        /\ (c.result.kind = "Duplicate") <=> NearSome(c.pre.emb, c.emb)
        /\ c.result.kind = "Duplicate" =>
              /\ c.result.name = NearestLabel(c.pre, c.emb)
              /\ Current = c.pre
        /\ ~NearSome(c.pre.emb, c.emb) =>
              /\ Current = WithRecord(c.pre, c.emb, c.label)
              /\ c.result.kind \in {"Ok", "AddFailed"}

\* a face exactly 0.5 from the only stored record was appended
C4_Witness ==
    /\ ReturnedFromConsistent
    /\ Len(slot[1].pre.emb) = 1
    /\ Dist(slot[1].pre.emb[1], slot[1].emb) = DedupThreshold
    /\ slot[1].result.kind = "Ok"
    /\ Len(face_embeddings) = 2

----------------------------------------------------------------------------
(* C5 *)

\* no two rows of E are closer than the dedup threshold
NoNearPair(E) ==
    \A j, k \in 1..Len(E) : j # k => Dist(E[j], E[k]) >= DedupThreshold

\* C5: from an empty store, through rejected calls, failed saves, crashes and
\* restarts, no two stored records (in memory or persisted) have embeddings
\* closer than 0.5.
C5_NoDuplicateIdentities ==
    /\ NoNearPair(face_embeddings)
    /\ NoNearPair(embFile.data)

\* a second record was accepted and persisted: two rows are stored
C5_Witness ==
    /\ up /\ slot[1].pc = "done" /\ slot[1].result.kind = "Ok"
    /\ Len(face_embeddings) = 2 /\ Len(embFile.data) = 2

----------------------------------------------------------------------------
(* C6 *)

\* an add_face call in slot 1 that got past detection has returned; it started
\* on a store with different numbers of labels and embeddings
ReturnedFromMismatch ==
    /\ up /\ slot[1].pc = "done" /\ slot[1].detected
    /\ ~Consistent(slot[1].pre)

\* the store S cut to the shorter of its two lengths
Truncated(S) ==
    LET m == Min(Len(S.emb), Len(S.lab))
    IN Store(SubSeq(S.emb, 1, m), SubSeq(S.lab, 1, m))

\* C6: on any store whose label and embedding counts differ, the next add_face
\* call that gets past detection truncates both to the shorter length and
\* persists that pair before it goes on, and does not abort (stated for the
\* calls in which every write of save_database succeeds).
C6_RepairOnEnroll ==
    (ReturnedFromMismatch /\ ~slot[1].ioFailed) =>
        /\ slot[1].repaired
        /\ slot[1].repairSaved = Truncated(slot[1].pre)
        /\ slot[1].result.kind # "Raised"

----------------------------------------------------------------------------
(* C7 *)

\* a step in which a recognize_faces call returns
RecognizeReturns == ~rec.called /\ rec'.called

\* C7: a recognize_faces call, whatever its outcome, leaves the in-memory
\* embeddings and labels and both persisted artifacts unchanged.
C7_RecognitionReadOnly ==
    [][RecognizeReturns =>
          UNCHANGED <<face_embeddings, face_labels, embFile, labFile>>]_vars

\* a recognition over a non-empty store returned a match
C7_Witness ==
    /\ rec.called /\ rec.error = "None" /\ Len(rec.results) > 0
    /\ Len(face_embeddings) > 0 /\ embFile.exists /\ labFile.exists

----------------------------------------------------------------------------
(* C8 *)

\* recognize_faces has returned from a call on a store with no record (no label)
RecognizedOnEmptyStore ==
    rec.called /\ Len(rec.pre.lab) = 0

\* C8 as claimed: on a store with zero records recognize_faces returns, for
\* every input image, an empty list with the empty-database signal.
C8_EmptyDatabaseForEveryImage ==
    RecognizedOnEmptyStore =>
        /\ rec.results = <<>>
        /\ rec.error = "EmptyDatabase"

\* C8 as amended: on a store with zero records recognize_faces never raises and
\* returns an empty list; the signal is the empty-database one when the image
\* decodes and shows at least one face, the decode error for an undecodable
\* image, and the detection message (no faces, processing error) otherwise.
C8_EmptyStoreRecognition ==
    RecognizedOnEmptyStore =>
        /\ rec.results = <<>>
        /\ rec.error # "Raised"
        /\ (rec.img.decodable /\ rec.img.detectOk /\ Len(rec.img.faces) > 0)
              <=> rec.error = "EmptyDatabase"
        /\ ~rec.img.decodable <=> rec.error = "DecodeError"
        /\ (rec.img.decodable /\ rec.img.detectOk /\ Len(rec.img.faces) = 0)
              <=> rec.error = "NoFaces"

\* three faces were detected and the store was empty
C8_Witness ==
    /\ RecognizedOnEmptyStore
    /\ Len(rec.img.faces) = 3
    /\ rec.error = "EmptyDatabase"

----------------------------------------------------------------------------
(* C9, C10 *)

\* recognize_faces has returned a result list, with no error signal
Recognized == rec.called /\ rec.error = "None"

\* the embeddings recognize_faces evaluates: those of the first 8 faces
Evaluated == [k \in 1..Min(Len(rec.img.faces), MAX_FACES_FOR_CHECK) |-> rec.img.faces[k].emb]

\* the least distance from e to a row of E (E not empty)
Nearest(E, e) ==
    CHOOSE d \in {Dist(E[k], e) : k \in 1..Len(E)} :
        \A k \in 1..Len(E) : d <= Dist(E[k], e)

\* C9: a face is emitted as a match exactly when its minimum distance d to the
\* stored embeddings is strictly below 0.7, with confidence max(0, 100 - 100 d):
\* as many matches as faces below the threshold, and for an image of one face
\* the match with that confidence or nothing.
C9_ThresholdAndConfidence ==
    Recognized =>
        LET E == rec.pre.emb
            near == {k \in 1..Len(Evaluated) : Nearest(E, Evaluated[k]) < RecogThreshold}
        IN /\ Len(rec.results) = Cardinality(near)
           /\ \A n \in 1..Len(rec.results) :
                 \E k \in near :
                    rec.results[n].confidence = Max(0, 100 - Nearest(E, Evaluated[k]))
           /\ Len(Evaluated) = 1 =>
                 IF Nearest(E, Evaluated[1]) < RecogThreshold
                 THEN /\ Len(rec.results) = 1
                      /\ rec.results[1].confidence = 100 - Nearest(E, Evaluated[1])
                 ELSE rec.results = <<>>

\* a face 0.69 from the nearest record matched with confidence 31
C9_Witness ==
    /\ Recognized /\ Len(Evaluated) = 1
    /\ Nearest(rec.pre.emb, Evaluated[1]) = 69
    /\ Len(rec.results) = 1 /\ rec.results[1].confidence = 31

\* a face 0.70 from the nearest record was not emitted
C9_WitnessAtThreshold ==
    /\ Recognized /\ Len(Evaluated) = 1
    /\ Nearest(rec.pre.emb, Evaluated[1]) = 70
    /\ rec.results = <<>>

\* the evaluated faces below the recognition threshold, in detection order
MatchingFaces ==
    SelectSeq(Evaluated, LAMBDA e : Nearest(rec.pre.emb, e) < RecogThreshold)

\* C10: the result is exactly the subsequence of the evaluated faces whose
\* minimum distance is below 0.7, in detection order, one entry per such face
\* (none for the others, and two faces matching the same record give two
\* entries).
C10_OrderPreserved ==
    Recognized =>
        /\ Len(rec.results) = Len(MatchingFaces)
        /\ \A n \in 1..Len(rec.results) :
              /\ rec.results[n].name = NearestLabel(rec.pre, MatchingFaces[n])
              /\ rec.results[n].confidence = 100 - Nearest(rec.pre.emb, MatchingFaces[n])

\* faces [X, Y, Z]: X and Z match the same record at the distances 0 and 0.69,
\* Y matches nothing; the result is [X-result, Z-result]
C10_Witness ==
    /\ Recognized /\ Len(Evaluated) = 3
    /\ Nearest(rec.pre.emb, Evaluated[1]) = 0
    /\ Nearest(rec.pre.emb, Evaluated[2]) >= RecogThreshold
    /\ Nearest(rec.pre.emb, Evaluated[3]) = 69
    /\ Len(rec.results) = 2
    /\ rec.results[1].confidence = 100 /\ rec.results[2].confidence = 31
    /\ rec.results[1].name = rec.results[2].name

----------------------------------------------------------------------------
(* C11 *)

\* an add_face call in slot 1 whose image showed several faces has returned
ReturnedFromGroup ==
    /\ up /\ slot[1].pc = "done" /\ slot[1].detected
    /\ Len(slot[1].faces) >= 2
    /\ Consistent(slot[1].pre)

\* the width x height of a bounding box <<x1, y1, x2, y2>>
WidthByHeight(b) == (b[3] - b[1]) * (b[4] - b[2])

\* the indices of the faces of fs no other face of which has a larger box
LargestFaces(fs) ==
    {k \in 1..Len(fs) : \A j \in 1..Len(fs) : WidthByHeight(fs[j].bbox) <= WidthByHeight(fs[k].bbox)}

\* C11: of an image of several faces add_face uses, for the dedup check and for
\* the appended record, the embedding of a face of largest box area, whatever
\* the detection order; when one face is larger than every other it is that
\* face's embedding that decides the rejection and that is appended.
C11_DominantFace ==
    ReturnedFromGroup =>
        LET c == slot[1]
            big == LargestFaces(c.faces)
        IN /\ \E k \in big : c.emb = c.faces[k].emb
           /\ \A k \in big :
                 Cardinality(big) = 1 =>
                    /\ (c.result.kind = "Duplicate") <=> NearSome(c.pre.emb, c.faces[k].emb)
                    /\ c.result.kind # "Duplicate" =>
                          Current = WithRecord(c.pre, c.faces[k].emb, c.label)

\* faces of areas 100 and 400, the small one first and within 0.5 of a stored
\* record: the 400-area face was enrolled
C11_Witness ==
    /\ ReturnedFromGroup
    /\ Len(slot[1].faces) = 2
    /\ WidthByHeight(slot[1].faces[1].bbox) = 100
    /\ WidthByHeight(slot[1].faces[2].bbox) = 400
    /\ NearSome(slot[1].pre.emb, slot[1].faces[1].emb)
    /\ slot[1].result.kind = "Ok"
    /\ Current = WithRecord(slot[1].pre, slot[1].faces[2].emb, slot[1].label)

\* the same two faces in the other detection order
C11_WitnessLargeFirst ==
    /\ ReturnedFromGroup
    /\ Len(slot[1].faces) = 2
    /\ WidthByHeight(slot[1].faces[1].bbox) = 400
    /\ WidthByHeight(slot[1].faces[2].bbox) = 100
    /\ NearSome(slot[1].pre.emb, slot[1].faces[2].emb)
    /\ slot[1].result.kind = "Ok"
    /\ Current = WithRecord(slot[1].pre, slot[1].faces[1].emb, slot[1].label)

----------------------------------------------------------------------------
(* C12 *)

\* the return values of lines 131, 135 and 139
EarlyErrors == {"EmptyComment", "DecodeError", "NoFaces", "DetectError"}

\* a step in which an add_face call returns one of the early rejections
EarlyRejected ==
    /\ slot[1].pc = "idle" /\ slot'[1].pc = "done"
    /\ slot'[1].result.kind \in EarlyErrors

\* C12: an add_face call rejected for an empty or blank label, an undecodable
\* image, zero faces or an embedder failure leaves the in-memory embeddings and
\* labels and both persisted artifacts as they were, whether or not the store's
\* two counts agree.
C12_EarlyRejectionFrame ==
    [][EarlyRejected =>
          UNCHANGED <<face_embeddings, face_labels, embFile, labFile>>]_vars

\* a call on a store of unequal counts was rejected for its input; the store is
\* still as it was, unrepaired
C12_Witness ==
    /\ up /\ slot[1].pc = "done" /\ slot[1].result.kind \in EarlyErrors
    /\ ~Consistent(slot[1].pre)
    /\ Current = slot[1].pre
    /\ Persisted = slot[1].preDisk

----------------------------------------------------------------------------
(* C13 *)

\* an add_face call in slot 1 has returned after a write of the save_database
\* of its append step failed
FailedInAppend ==
    /\ up /\ slot[1].pc = "done"
    /\ slot[1].ioFailed /\ slot[1].phase = "append"

\* the store the call appended to: the one it started on, cut by its repair
AppendBase(c) == IF c.repaired THEN Truncated(c.pre) ELSE c.pre

\* C13: when save_database fails in the append step, add_face returns the
\* failure message (not the confirmation, not an exception), and the embedding
\* and label it appended in memory stay appended.
C13_PersistFailureSurfaced ==
    FailedInAppend =>
        /\ slot[1].result.kind = "AddFailed"
        /\ Current = WithRecord(AppendBase(slot[1]), slot[1].emb, slot[1].label)

\* the write of the labels failed after the embeddings were written: the call
\* returned the failure message and the record is in memory
C13_Witness ==
    /\ FailedInAppend
    /\ slot[1].result.kind = "AddFailed"
    /\ Consistent(slot[1].pre)
    /\ Current = WithRecord(slot[1].pre, slot[1].emb, slot[1].label)
    /\ embFile = File(face_embeddings)
    /\ labFile # File(face_labels)

----------------------------------------------------------------------------
(* C14 *)

\* load_database has just run in a process started after a crash, and no
\* request has been taken since
JustLoadedAfterCrash == up /\ crashed.active

\* C14: after load_database the in-memory store is the persisted pair when
\* both artifacts exist and empty when neither does, and no artifact is left
\* without its partner: a lone artifact has been replaced by the consistent
\* (empty) pair.
C14_LoadCases ==
    JustLoadedAfterCrash =>
        /\ (embFile.exists /\ labFile.exists) =>
              Current = Store(embFile.data, labFile.data)
        /\ (~embFile.exists /\ ~labFile.exists) => Current = EmptyStore
        /\ embFile.exists <=> labFile.exists

----------------------------------------------------------------------------
(* C15 *)

\* recognize_faces has returned from a call that got past decoding and
\* detection, to the store
RecognizedOnStore ==
    /\ rec.called
    /\ rec.error \notin {"DecodeError", "NoFaces", "DetectError"}

\* C15: the store a recognize_faces call works on has as many embeddings as
\* labels, and the call does not end in an exception (the index of the nearest
\* row is an index of the labels, the scan is not over an empty matrix).
C15_RecognitionSeesConsistentStore ==
    RecognizedOnStore =>
        /\ Consistent(rec.pre)
        /\ rec.error # "Raised"

\* a recognition ended in the IndexError of line 196
C15_IndexErrorReached ==
    /\ RecognizedOnStore
    /\ rec.error = "Raised"
    /\ Len(rec.pre.emb) > Len(rec.pre.lab)

----------------------------------------------------------------------------
(* C16 *)

\* the call in slot 1 returned the failure message after a failed save on a
\* store of equal counts; the next call, in slot 2, was the same enrollment
\* (same dominant face, same label), every write it made succeeded, and it
\* has returned
RetriedAfterFailedSave ==
    /\ up
    /\ slot[1].pc = "done" /\ slot[1].result.kind = "AddFailed" /\ slot[1].ioFailed
    /\ Consistent(slot[1].pre)
    /\ slot[2].pc = "done" /\ slot[2].second /\ slot[2].detected
    /\ ~slot[2].ioFailed
    /\ slot[2].emb = slot[1].emb /\ slot[2].label = slot[1].label

\* how many complete records of S are the record (e, l)
Occurrences(S, e, l) ==
    Cardinality({k \in 1..Min(Len(S.emb), Len(S.lab)) : S.emb[k] = e /\ S.lab[k] = l})

\* C16: after an add_face call that failed on a failed save, a retry of the
\* same enrollment with working persistence ends with the record exactly once
\* in the in-memory store and exactly once in the persisted artifacts.
C16_RetryAfterPersistFailure ==
    RetriedAfterFailedSave =>
        /\ Occurrences(Current, slot[1].emb, slot[1].label) = 1
        /\ embFile.exists /\ labFile.exists
        /\ Occurrences(Store(embFile.data, labFile.data), slot[1].emb, slot[1].label) = 1

----------------------------------------------------------------------------
(* C17 *)

\* an add_face call in slot 1 has returned, with whatever outcome
Returned == up /\ slot[1].pc = "done"

\* P is S with entries dropped from the ends of its sequences
CutOf(P, S) ==
    /\ Len(P.emb) <= Len(S.emb) /\ P.emb = SubSeq(S.emb, 1, Len(P.emb))
    /\ Len(P.lab) <= Len(S.lab) /\ P.lab = SubSeq(S.lab, 1, Len(P.lab))

\* the number of complete records of S
Records(S) == Min(Len(S.emb), Len(S.lab))

\* C17 as claimed: an add_face call leaves the store unchanged, or cut to a
\* prefix of itself, or extended by exactly one record at the end; an accepted
\* enrollment adds exactly one to both counts.
C17_AppendOnly ==
    Returned =>
        LET c == slot[1] IN
        /\ \/ Current = c.pre
           \/ CutOf(Current, c.pre)
           \/ Current = WithRecord(c.pre, c.emb, c.label)
        /\ c.result.kind = "Ok" =>
              /\ Len(face_embeddings) = Len(c.pre.emb) + 1
              /\ Len(face_labels) = Len(c.pre.lab) + 1

\* C17 as amended: an add_face call leaves the store unchanged, or cut to the
\* shorter of its two counts (repair), or either of these with exactly one
\* embedding and one label added at the ends; nothing that is not cut is
\* modified or reordered; an accepted enrollment ends with its embedding and its
\* label last and with one complete record more.
C17_CutThenAppend ==
    Returned =>
        LET c == slot[1] IN
        /\ Current \in {c.pre, Truncated(c.pre),
                        WithRecord(c.pre, c.emb, c.label),
                        WithRecord(Truncated(c.pre), c.emb, c.label)}
        /\ c.result.kind = "Ok" =>
              /\ Records(Current) = Records(c.pre) + 1
              /\ face_embeddings[Len(face_embeddings)] = c.emb
              /\ face_labels[Len(face_labels)] = c.label

\* a call on 2 embeddings and 1 label cut the store to 1 record and appended
\* its own: the second row is a new one
C17_Witness ==
    /\ Returned
    /\ Len(slot[1].pre.emb) = 2 /\ Len(slot[1].pre.lab) = 1
    /\ slot[1].result.kind = "Ok"
    /\ Current = WithRecord(Truncated(slot[1].pre), slot[1].emb, slot[1].label)
    /\ face_embeddings[2] # slot[1].pre.emb[2]

----------------------------------------------------------------------------
(* C18 *)

\* the indices of the rows of E at the least distance from e
AtMinimum(E, e) ==
    {k \in 1..Len(E) : \A j \in 1..Len(E) : Dist(E[k], e) <= Dist(E[j], e)}

LowestOf(S) == CHOOSE k \in S : \A j \in S : k <= j

\* an add_face call in slot 1, on a store of equal counts, was rejected as a
\* duplicate
RejectedAsDuplicate ==
    /\ up /\ slot[1].pc = "done" /\ slot[1].result.kind = "Duplicate"
    /\ Consistent(slot[1].pre)

\* C18: among several stored records at the same minimum distance, the label
\* named by add_face's duplicate rejection and the label of each match of
\* recognize_faces are those of the record of lowest index.
C18_TieBreakLowestIndex ==
    /\ RejectedAsDuplicate =>
          slot[1].result.name =
              slot[1].pre.lab[LowestOf(AtMinimum(slot[1].pre.emb, slot[1].emb))]
    /\ (Recognized /\ Consistent(rec.pre)) =>
          /\ Len(rec.results) = Len(MatchingFaces)
          /\ \A n \in 1..Len(rec.results) :
                rec.results[n].name =
                    rec.pre.lab[LowestOf(AtMinimum(rec.pre.emb, MatchingFaces[n]))]

\* a face 0.3 from both of two records of different labels was rejected under
\* the label of the first
C18_Witness ==
    /\ RejectedAsDuplicate
    /\ Len(slot[1].pre.emb) = 2
    /\ AtMinimum(slot[1].pre.emb, slot[1].emb) = {1, 2}
    /\ slot[1].pre.lab[1] # slot[1].pre.lab[2]
    /\ slot[1].result.name = slot[1].pre.lab[1]

\* a face 0.3 from both of two records of different labels was recognized as
\* the first
C18_WitnessRecognize ==
    /\ Recognized /\ Len(rec.pre.emb) = 2 /\ Len(rec.pre.lab) = 2
    /\ Len(Evaluated) = 1
    /\ AtMinimum(rec.pre.emb, Evaluated[1]) = {1, 2}
    /\ rec.pre.lab[1] # rec.pre.lab[2]
    /\ Len(rec.results) = 1
    /\ rec.results[1].name = rec.pre.lab[1]
    /\ rec.results[1].confidence = 70

----------------------------------------------------------------------------
(* C19 *)

\* the image of the last recognition with only its first n faces
FirstFaces(n) == [rec.img EXCEPT !.faces = SubSeq(rec.img.faces, 1, Min(n, Len(rec.img.faces)))]

\* the positions, among the first n faces reported, of those within the
\* recognition threshold of a stored row
MatchingAmongFirst(n) ==
    {k \in 1..Len(rec.img.faces) :
        k <= n /\ Nearest(rec.pre.emb, rec.img.faces[k].emb) < RecogThreshold}

\* C19: recognize_faces evaluates only the first 8 faces the embedder reports:
\* its result has at most 8 entries, one per matching face among the first 8,
\* and is the result for the image without its 9th and later faces.
C19_FaceCap ==
    Recognized =>
        /\ Len(rec.results) <= 8
        /\ Len(rec.results) = Cardinality(MatchingAmongFirst(8))
        /\ rec.results = recognize_faces(rec.pre.emb, rec.pre.lab, FirstFaces(8)).results

\* nine faces, the first eight 0.7 from the stored record and the ninth on it:
\* no match is returned
C19_Witness ==
    /\ Recognized /\ Len(rec.pre.emb) = 1
    /\ Len(rec.img.faces) = 9
    /\ \A k \in 1..8 : Dist(rec.pre.emb[1], rec.img.faces[k].emb) = RecogThreshold
    /\ Dist(rec.pre.emb[1], rec.img.faces[9].emb) = 0
    /\ rec.results = <<>>

\* nine faces on the stored record: eight matches are returned
C19_WitnessEight ==
    /\ Recognized /\ Len(rec.pre.emb) = 1
    /\ Len(rec.img.faces) = 9
    /\ \A k \in 1..9 : Dist(rec.pre.emb[1], rec.img.faces[k].emb) = 0
    /\ Len(rec.results) = 8

----------------------------------------------------------------------------
(* C20 *)

\* an add_face call in slot 1 has just returned the confirmation message
Confirmed == up /\ slot[1].pc = "done" /\ slot[1].result.kind = "Ok"

\* C20: right after add_face returns the confirmation both artifacts exist and
\* hold exactly the in-memory embeddings and labels, so that load_database
\* would read back the same store; the last label is the comment as supplied,
\* and it is the one the message names.
C20_CommitRoundTrip ==
    Confirmed =>
        /\ embFile.exists /\ labFile.exists
        /\ embFile.data = face_embeddings
        /\ labFile.data = face_labels
        /\ Persisted = Current
        /\ face_labels[Len(face_labels)] = slot[1].label
        /\ slot[1].result.name = slot[1].label

\* a second record, under a label with a leading blank, was confirmed: the
\* label is stored and persisted with its blank
C20_Witness ==
    /\ Confirmed
    /\ Len(face_labels) = 2 /\ Len(face_embeddings) = 2
    /\ slot[1].label = " bob"
    /\ labFile.data[2] = " bob"
    /\ embFile.data[2] = slot[1].emb

====
